---- MODULE Spec2Model ----
(***************************************************************************)
(* Call routing and agent-state coordination of the ACS dynamic queue      *)
(* backend: AgentService, GroupService, CallService, ACSService and the    *)
(* call/agent controllers, as one state machine.                           *)
(*                                                                         *)
(* Identifiers.  Agents, groups and calls are numbered in the order in     *)
(* which they were put into their Map (a JavaScript Map iterates in        *)
(* insertion order, and Map.set on an existing key keeps its place), so    *)
(* "first in the listing" is "smallest id".  None (0) stands for an        *)
(* absent optional id, Undef (-1) for an absent optional number.           *)
(* Clock readings (Date.now()) are in milliseconds.  An agent's            *)
(* totalCallDuration is kept in milliseconds too: the code stores          *)
(* duration / 1000 as a float, and the model keeps that value times 1000.  *)
(***************************************************************************)
EXTENDS Integers, Sequences, FiniteSets, TLC

\* ------------------------------------------------------------- bounds
MaxCalls == 2          \* calls created in a run
MaxLiveCalls == 1      \* calls created in a run against the live gateway
MaxTransferCalls == 1  \* calls created in a run of the transfer specification
MaxRoutedCalls == 2    \* calls created in a run of the routing specification
MaxTime == 1           \* clock readings 0..MaxTime
MaxTotalCalls == 2     \* an agent's statistics.totalCalls
MaxGroups == 3         \* groups created through POST /api/groups
MaxAttempts == 7       \* reconnects of a console the model follows
MaxDetached == 1       \* sockets a console has lost track of while they live
MaxTimers == 2         \* reconnect timers of a console pending at once
MaxInterleaved == 3    \* handleIncomingCall invocations that interleave
MaxClients == 2        \* WebSocket connections of one agent id
MaxPending == 2        \* invocations awaiting the gateway at once
MaxClock == 9          \* clock readings of the calendar specification
MaxCounterCalls == 2   \* calls created in a run of the calendar specification
DayLength == 2         \* clock readings in a day
DaysPerWeek == 2       \* days in a week
DaysPerMonth == 4      \* days in a month

None == 0
Undef == -1

AgentIds == {1, 2}
GroupIds == {1, 2, 3}
\* Group g is created with phone number g.  The numbers callers dial: that of
\* group 1 (the other groups take calls by overflow) and 9, no group's number.
DialledNumbers == {1, 9}

\* AgentStatus and CallStatus
AVAILABLE == "available"
BUSY == "busy"
OFFLINE == "offline"
IN_CALL == "in_call"
AgentStatus == {AVAILABLE, BUSY, OFFLINE, IN_CALL}

INCOMING == "incoming"
RINGING == "ringing"
CONNECTED == "connected"
ENDED == "ended"
TRANSFERRED == "transferred"
CallStatus == {INCOMING, RINGING, CONNECTED, ENDED, TRANSFERRED}

VARIABLES
    agents,     \* AgentService.agents: id -> Agent
    groups,     \* GroupService.groups: id -> Group
    calls,      \* CallService.calls: the calls in creation order (id = index)
    now,        \* the clock, Date.now()
    acsMode,    \* how ACSService was constructed / where its callback points
    pending,    \* answerCall / endCall invocations awaiting the gateway
    sessions,   \* the telephony session of each connection id: none, up or down
    last,       \* what the handler that completed last returned and sent
    clients,    \* WebSocketService.clients: the agent connections per agent id
    console,    \* a console's WebSocketService (agent or supervisor webapp)
    routing     \* handleIncomingCall invocations suspended at an await

vars == <<agents, groups, calls, now, acsMode, pending, sessions, last,
         clients, console, routing>>

\* ------------------------------------------------------------ helpers
Min(S) == CHOOSE x \in S : \A y \in S : x <= y

\* The ids of S in Map order, as a sequence.
RECURSIVE SetToSeq(_)
SetToSeq(S) == IF S = {} THEN <<>> ELSE <<Min(S)>> \o SetToSeq(S \ {Min(S)})

\* {...rec, ...updates}: the fields of updates override those of rec.
Merge(rec, updates) ==
    [f \in DOMAIN rec |-> IF f \in DOMAIN updates THEN updates[f] ELSE rec[f]]

\* ------------------------------------------------------- AgentService
NewStatistics ==
    [totalCalls |-> 0, totalCallDuration |-> 0,
     callsToday |-> 0, callsThisWeek |-> 0, callsThisMonth |-> 0,
     lastCallTime |-> Undef]

\* The calendar of a clock reading: getDate / getMonth / getFullYear together,
\* getDay, and getMonth / getFullYear together.
Day(t) == t \div DayLength
DayOfWeek(t) == Day(t) % DaysPerWeek
Month(t) == Day(t) \div DaysPerMonth

\* AgentService.isToday, isThisWeek and isThisMonth; today is the clock
\* reading when they run.
IsToday(date, today) == Day(date) = Day(today)

IsThisWeek(date, today) ==
    LET weekStart == today - DayLength * DayOfWeek(today)
    IN date >= weekStart

IsThisMonth(date, today) == Month(date) = Month(today)

NewAgent(groupIds) ==
    [status |-> OFFLINE, groupIds |-> groupIds, currentCallId |-> None,
     statistics |-> NewStatistics]

GetAgentsByGroup(ags, groupId) ==
    {a \in DOMAIN ags : groupId \in ags[a].groupIds}

GetAvailableAgentsByGroup(ags, groupId) ==
    {a \in GetAgentsByGroup(ags, groupId) : ags[a].status = AVAILABLE}

\* AgentService.updateAgent: the new directory, unchanged for an unknown id.
UpdateAgent(ags, id, updates) ==
    IF id \notin DOMAIN ags THEN ags
    ELSE [ags EXCEPT ![id] = Merge(ags[id], updates)]

UpdateAgentStatus(ags, id, status) == UpdateAgent(ags, id, [status |-> status])

\* A reservation that does not look at the agent's status.
AssignCallToAgentAnyStatus(ags, agentId, callId) ==
    IF agentId \notin DOMAIN ags
    THEN [ok |-> FALSE, agents |-> ags]
    ELSE [ok |-> TRUE,
          agents |-> UpdateAgent(ags, agentId,
                        [status |-> IN_CALL, currentCallId |-> callId])]

\* AgentService.deleteAgent: Map.delete.
DeleteAgent(ags, id) == [a \in DOMAIN ags \ {id} |-> ags[a]]

\* AgentService.assignCallToAgent (the spec's reserveForCall).
AssignCallToAgent(ags, agentId, callId) ==
    IF agentId \notin DOMAIN ags \/ ags[agentId].status # AVAILABLE
    THEN [ok |-> FALSE, agents |-> ags]
    ELSE [ok |-> TRUE,
          agents |-> UpdateAgent(ags, agentId,
                        [status |-> IN_CALL, currentCallId |-> callId])]

\* AgentService.releaseAgentFromCall (the spec's release).
ReleaseAgentFromCall(ags, agentId, callDuration) ==
    IF agentId \notin DOMAIN ags
    THEN [ok |-> FALSE, agents |-> ags]
    ELSE LET st == ags[agentId].statistics
             newStatistics ==
                 [totalCalls |-> st.totalCalls + 1,
                  totalCallDuration |-> st.totalCallDuration + callDuration,
                  callsToday |-> IF IsToday(now, now)
                                 THEN st.callsToday + 1 ELSE 1,
                  callsThisWeek |-> IF IsThisWeek(now, now)
                                    THEN st.callsThisWeek + 1 ELSE 1,
                  callsThisMonth |-> IF IsThisMonth(now, now)
                                     THEN st.callsThisMonth + 1 ELSE 1,
                  lastCallTime |-> now]
         IN [ok |-> TRUE,
             agents |-> UpdateAgent(ags, agentId,
                           [status |-> AVAILABLE, currentCallId |-> None,
                            statistics |-> newStatistics])]

\* ------------------------------------------------------- GroupService
NewGroupStatistics == [totalAgents |-> 0, availableAgents |-> 0, busyAgents |-> 0]

\* A lookup that falls back to the first group for an unknown number.
GetGroupByPhoneNumberOrFirst(grps, phoneNumber) ==
    LET hits == {g \in DOMAIN grps : grps[g].phoneNumber = phoneNumber}
    IN IF hits = {} THEN Min(DOMAIN grps) ELSE Min(hits)

GetGroupByPhoneNumber(grps, phoneNumber) ==
    LET hits == {g \in DOMAIN grps : grps[g].phoneNumber = phoneNumber}
    IN IF hits = {} THEN None ELSE Min(hits)

UpdateGroupStatistics(grps, ags, groupId) ==
    IF groupId \notin DOMAIN grps THEN grps
    ELSE LET members == GetAgentsByGroup(ags, groupId)
             statistics ==
                 [totalAgents |-> Cardinality(members),
                  availableAgents |->
                      Cardinality({a \in members : ags[a].status = AVAILABLE}),
                  busyAgents |->
                      Cardinality({a \in members : ags[a].status \in {BUSY, IN_CALL}})]
         IN [grps EXCEPT ![groupId].statistics = statistics]

\* GroupService.addAgentToGroup.
AddAgentToGroup(grps, ags, groupId, agentId) ==
    IF groupId \notin DOMAIN grps \/ agentId \notin DOMAIN ags
    THEN [ok |-> FALSE, groups |-> grps, agents |-> ags]
    ELSE LET joined == [grps EXCEPT ![groupId].agentIds = @ \cup {agentId}]
             newAgents == UpdateAgent(ags, agentId,
                             [groupIds |-> ags[agentId].groupIds \cup {groupId}])
         IN [ok |-> TRUE,
             groups |-> UpdateGroupStatistics(joined, newAgents, groupId),
             agents |-> newAgents]

\* GroupService.removeAgentFromGroup.
RemoveAgentFromGroup(grps, ags, groupId, agentId) ==
    IF groupId \notin DOMAIN grps \/ agentId \notin DOMAIN ags
    THEN [ok |-> FALSE, groups |-> grps, agents |-> ags]
    ELSE LET left == [grps EXCEPT ![groupId].agentIds = @ \ {agentId}]
             newAgents == UpdateAgent(ags, agentId,
                             [groupIds |-> ags[agentId].groupIds \ {groupId}])
         IN [ok |-> TRUE,
             groups |-> UpdateGroupStatistics(left, newAgents, groupId),
             agents |-> newAgents]

\* GroupService.createGroup; the new group is the last of the Map, which the
\* model keeps in id order.
CreateGroup(grps, request) ==
    LET id == Cardinality(DOMAIN grps) + 1
    IN [g \in DOMAIN grps \cup {id} |->
          IF g = id
          THEN [phoneNumber |-> request.phoneNumber,
                agentIds |-> {},
                overflowGroupIds |-> request.overflowGroupIds,
                overflowEnabled |-> request.overflowEnabled,
                statistics |-> NewGroupStatistics]
          ELSE grps[g]]

\* GroupService.updateGroup: {...group, ...updates}; the group keeps its place.
UpdateGroup(grps, id, updates) ==
    IF id \notin DOMAIN grps THEN grps
    ELSE [grps EXCEPT ![id] = Merge(@, updates)]

RECURSIVE Reverse(_)
Reverse(q) == IF q = <<>> THEN <<>> ELSE Reverse(Tail(q)) \o <<Head(q)>>

\* Overflow candidates in the reverse of the configured order.
GetAvailableGroupsReversed(grps, ags, originalGroupId) ==
    IF originalGroupId \notin DOMAIN grps \/ ~grps[originalGroupId].overflowEnabled
    THEN <<>>
    ELSE Reverse(SelectSeq(grps[originalGroupId].overflowGroupIds,
                           LAMBDA id : /\ id \in DOMAIN grps
                                       /\ GetAvailableAgentsByGroup(ags, id) # {}))

\* Overflow candidates whatever the overflow switch says.
GetAvailableGroupsAlways(grps, ags, originalGroupId) ==
    IF originalGroupId \notin DOMAIN grps
    THEN <<>>
    ELSE SelectSeq(grps[originalGroupId].overflowGroupIds,
                   LAMBDA id : /\ id \in DOMAIN grps
                               /\ GetAvailableAgentsByGroup(ags, id) # {})

\* GroupService.getAvailableGroups (the spec's overflowCandidates).
GetAvailableGroups(grps, ags, originalGroupId) ==
    IF originalGroupId \notin DOMAIN grps \/ ~grps[originalGroupId].overflowEnabled
    THEN <<>>
    ELSE SelectSeq(grps[originalGroupId].overflowGroupIds,
                   LAMBDA id : /\ id \in DOMAIN grps
                               /\ GetAvailableAgentsByGroup(ags, id) # {})

\* -------------------------------------------------- WebSocketService
\* WebSocketService.disconnectAgent: closes the first connection of the agent.
DisconnectAgent(cl, agentId) ==
    IF cl[agentId] > 0 THEN [cl EXCEPT ![agentId] = @ - 1] ELSE cl

\* -------------------------------------------------------- ACSService
\* The connection id the control plane gives the leg of call callId, and the
\* id `mock-connection-${Date.now()}` of the localhost development path.
RealConnectionId(callId) == callId
ConnectionIds == {RealConnectionId(c) : c \in 1..MaxCalls}
MockConnectionId(t) == 100 + t
IsMockConnection(conn) == conn >= 100

\* ACSService.endCall up to its hangUp request: TRUE when it returns success
\* without contacting the control plane.
EndsWithoutGateway(call) ==
    \/ acsMode = "none"
    \/ call.acsCallConnectionId = None
    \/ IsMockConnection(call.acsCallConnectionId)

\* The sessions once the control plane has set up connection conn (the
\* incoming call's, or the one a successful answer creates).
SessionUp(conn) ==
    IF sessions[conn] = "none" THEN [sessions EXCEPT ![conn] = "up"] ELSE sessions

\* -------------------------------------------------------- CallService
NewCall(groupId, conn, ctx) ==
    [groupId |-> groupId, status |-> INCOMING, startTime |-> now,
     endTime |-> Undef, duration |-> Undef, waitTime |-> Undef,
     assignedAgentId |-> None,
     acsCallConnectionId |-> conn, acsIncomingCallContext |-> ctx]

FindCallByACSConnectionId(conn) ==
    LET hits == {c \in 1..Len(calls) : calls[c].acsCallConnectionId = conn}
    IN IF hits = {} THEN None ELSE Min(hits)

\* A CallService.assignCallToAgent that takes the first member of the group
\* without looking at anybody's status.
CallAssignCallToAgentUnchecked(ags, groupId, callId) ==
    LET members == GetAgentsByGroup(ags, groupId)
    IN IF members = {}
       THEN [agent |-> None, agents |-> ags]
       ELSE [agent |-> Min(members),
             agents |-> UpdateAgent(ags, Min(members),
                           [status |-> IN_CALL, currentCallId |-> callId])]

\* CallService.assignCallToAgent: the agent reserved for the call (None when
\* nobody is) and the agent directory afterwards.
CallAssignCallToAgent(ags, groupId, callId) ==
    LET availableAgents == GetAvailableAgentsByGroup(ags, groupId)
    IN IF availableAgents = {}
       THEN [agent |-> None, agents |-> ags]
       ELSE LET selectedAgent == Min(availableAgents)
                r == AssignCallToAgent(ags, selectedAgent, callId)
            IN IF r.ok THEN [agent |-> selectedAgent, agents |-> r.agents]
               ELSE [agent |-> None, agents |-> ags]

\* The loop of CallService.tryOverflowRouting from the i-th candidate on.
RECURSIVE OverflowLoop(_, _, _, _, _)
OverflowLoop(ags, call, callId, overflowGroups, i) ==
    IF i > Len(overflowGroups)
    THEN [ok |-> FALSE, call |-> call, agents |-> ags]
    ELSE LET groupId == overflowGroups[i]
         IN IF GetAvailableAgentsByGroup(ags, groupId) # {}
            THEN LET moved == [call EXCEPT !.groupId = groupId]
                     r == CallAssignCallToAgent(ags, groupId, callId)
                 IN IF r.agent # None
                    THEN [ok |-> TRUE,
                          call |-> [moved EXCEPT !.assignedAgentId = r.agent,
                                                 !.status = RINGING],
                          agents |-> r.agents]
                    ELSE OverflowLoop(ags, moved, callId, overflowGroups, i + 1)
            ELSE OverflowLoop(ags, call, callId, overflowGroups, i + 1)

TryOverflowRouting(ags, grps, call, callId) ==
    OverflowLoop(ags, call, callId, GetAvailableGroups(grps, ags, call.groupId), 1)

\* The positions of the candidates of a tryOverflowRouting loop, from the
\* i-th on, that have an available agent now.
OverflowPositions(ags, overflowGroups, i) ==
    {j \in i..Len(overflowGroups) :
        GetAvailableAgentsByGroup(ags, overflowGroups[j]) # {}}

\* Routing that hands the call to the first member of its group, whatever
\* the member's status.
RouteCallToAnyMember(ags, grps, call, callId) ==
    LET members == GetAgentsByGroup(ags, call.groupId)
    IN IF members = {}
       THEN [call |-> call, agents |-> ags]
       ELSE [call |-> [call EXCEPT !.assignedAgentId = Min(members),
                                   !.status = RINGING],
             agents |-> UpdateAgent(ags, Min(members),
                           [status |-> IN_CALL, currentCallId |-> callId])]

\* CallService.handleIncomingCall from the created call on: direct assignment,
\* then overflow.
RouteCall(ags, grps, call, callId) ==
    LET r == CallAssignCallToAgent(ags, call.groupId, callId)
    IN IF r.agent # None
       THEN [call |-> [call EXCEPT !.assignedAgentId = r.agent, !.status = RINGING],
             agents |-> r.agents]
       ELSE LET o == TryOverflowRouting(ags, grps, call, callId)
            IN [call |-> o.call, agents |-> o.agents]

\* The state change of CallService.endCall after the gateway's success.
EndCallEffect(callId) ==
    LET call == calls[callId]
        assignedAgentId == call.assignedAgentId
        duration == now - call.startTime
        releases == assignedAgentId # None /\ duration # 0
        ended == [call EXCEPT !.status = ENDED, !.endTime = now,
                              !.duration = duration,
                              !.waitTime = IF releases THEN 0 ELSE @]
        released == IF releases
                    THEN ReleaseAgentFromCall(agents, assignedAgentId, duration).agents
                    ELSE agents
    IN /\ calls' = [calls EXCEPT ![callId] = ended]
       /\ agents' = released
       /\ groups' = UpdateGroupStatistics(groups, released, call.groupId)

\* The state change of CallService.answerCall after the gateway's success.
AnswerCallEffect(callId, conn) ==
    LET call == calls[callId]
    IN /\ calls' = [calls EXCEPT ![callId] =
                       [call EXCEPT !.status = CONNECTED,
                                    !.acsCallConnectionId = conn]]
       /\ groups' = UpdateGroupStatistics(groups, agents, call.groupId)
       /\ UNCHANGED agents

\* ------------------------------------------- the consoles' WebSocketService
\* agent-webapp services/webSocketService.ts and supervisor-webapp
\* services/websocket.service.ts.
maxReconnectAttempts == 5
reconnectDelay == 3000

\* The service as constructed.  ws: the state of this.ws / this.socket
\* (connecting, open or closed), "none" without one; detached: the sockets the
\* service no longer refers to whose handlers can still run, by state
\* (closing: close() was called, onclose is to come); throws: the URL is one
\* new WebSocket rejects.  attempts (the
\* reconnects made since the last open) and signalled (the connection_failed
\* event) observe the service.
NoSockets == [connecting |-> 0, open |-> 0, closing |-> 0]

NewConsole(role, throws) ==
    [role |-> role, throws |-> throws, agentId |-> FALSE, ws |-> "none", detached |-> NoSockets,
     reconnectAttempts |-> 0, timers |-> 0, delay |-> 0,
     attempts |-> 0, signalled |-> FALSE]

\* handleReconnect.
HandleReconnect(c) ==
    IF c.reconnectAttempts < maxReconnectAttempts
    THEN [c EXCEPT !.reconnectAttempts = @ + 1,
                   !.timers = @ + 1,
                   !.delay = reconnectDelay * (c.reconnectAttempts + 1)]
    ELSE [c EXCEPT !.signalled = (c.role = "agent")]

\* connect from new WebSocket on: the constructor throws, or the socket is
\* created and given the handlers; a socket this.ws referred to and that is
\* not closed lives on.
ConnectSocket(c) ==
    IF c.throws THEN HandleReconnect(c)
    ELSE [c EXCEPT !.ws = "connecting",
                   !.detached = IF c.ws \in {"connecting", "open"}
                                THEN [@ EXCEPT ![c.ws] = @ + 1] ELSE @]

\* ---------------------------------------------------------- actions
\* What a handler returned (ok), whether it called ACSService (gateway), and
\* the WebSocket messages it sent.
\* status and body are the HTTP reply of the two webhook endpoints (Undef
\* for the other handlers): handleIncomingCall replies 200 with the call or
\* 404 without a group, handleACSCallEvents 200 {success: true}.
Status(op, ok) ==
    IF op = "handleIncomingCall" THEN (IF ok THEN 200 ELSE 404)
    ELSE IF op = "handleACSCallEvents" THEN 200
    ELSE Undef

Returned(op, ok, gateway, notified) ==
    [op |-> op, ok |-> ok, gateway |-> gateway, notified |-> notified,
     status |-> Status(op, ok), body |-> [success |-> ok]]

\* res.status(400).json({success: false, error}).
BadRequest(op) == [Returned(op, FALSE, FALSE, {}) EXCEPT !.status = 400]

Rejected(op) == Returned(op, FALSE, FALSE, {})

AgentNotices(agentId) ==
    IF agentId \in DOMAIN agents
    THEN {"agent_status_update", "agent_status_updated"} ELSE {}

Answered(agentId) ==
    Returned("answerCall", TRUE, TRUE, {"call_answered"} \cup AgentNotices(agentId))

EndedCall(call) ==
    Returned("endCall", TRUE, TRUE,
             {"call_ended"} \cup AgentNotices(call.assignedAgentId))

\* Time passes.
Tick ==
    /\ now < MaxTime
    /\ now' = now + 1
    /\ UNCHANGED <<agents, groups, calls, acsMode, clients, console, routing, pending, sessions, last>>

\* Time passes in the calendar specification.
TimePasses ==
    /\ now < MaxClock
    /\ now' = now + 1
    /\ UNCHANGED <<agents, groups, calls, acsMode, clients, console, routing, pending, sessions, last>>

\* An agent that release may still be counted for within the model's bound.
CanCount(agentId) ==
    agentId \in DOMAIN agents =>
        agents[agentId].statistics.totalCalls < MaxTotalCalls

CanRelease(callId) ==
    (calls[callId].assignedAgentId # None /\ now # calls[callId].startTime)
        => CanCount(calls[callId].assignedAgentId)

\* POST /api/calls/incoming: CallController.handleIncomingCall and
\* CallService.handleIncomingCall.  conn and ctx say whether the event data
\* carries callConnectionId and incomingCallContext (the legacy format has
\* neither).
IncomingCallWebhook(phoneNumber, conn, ctx) ==
    /\ Len(calls) < MaxCalls
    /\ LET groupId == GetGroupByPhoneNumber(groups, phoneNumber)
           callId == Len(calls) + 1
       IN IF groupId = None
          THEN /\ last' = Rejected("handleIncomingCall")
               /\ UNCHANGED <<agents, calls, sessions>>
          ELSE LET call == NewCall(groupId,
                               IF conn THEN RealConnectionId(callId) ELSE None, ctx)
                   r == RouteCall(agents, groups, call, callId)
               IN /\ calls' = Append(calls, r.call)
                  /\ agents' = r.agents
                  /\ sessions' = IF conn THEN SessionUp(RealConnectionId(callId))
                                 ELSE sessions
                  /\ last' = Returned("handleIncomingCall", TRUE, FALSE,
                                      IF r.call.assignedAgentId # None
                                      THEN {"call_incoming"} ELSE {})
    /\ UNCHANGED <<groups, now, acsMode, clients, console, routing, pending>>

\* A validation reply with a code of the server's own.
ValidationReplyFixed(op, validationCode) ==
    IF validationCode # ""
    THEN [Returned(op, TRUE, FALSE, {}) EXCEPT
             !.status = 200, !.body = [validationResponse |-> "code-a"]]
    ELSE [BadRequest(op) EXCEPT !.body = [error |-> "Missing validation code"]]

\* Microsoft.EventGrid.SubscriptionValidationEvent at the incoming-call
\* webhook; "" is a missing (or empty) validationCode.
ValidationReply(op, validationCode) ==
    IF validationCode # ""
    THEN [Returned(op, TRUE, FALSE, {}) EXCEPT
             !.status = 200, !.body = [validationResponse |-> validationCode]]
    ELSE [BadRequest(op) EXCEPT !.body = [error |-> "Missing validation code"]]

\* The request bodies of POST /api/calls/incoming: an EventGrid array whose
\* first event is a subscription validation, an incoming call (data absent,
\* or with to / from numbers that may be missing, None and FALSE) or of
\* another type; or the legacy object.
ValidationCodes == {"", "code-a", "code-b"}

IncomingBodies ==
    [format : {"eventgrid"}, eventType : {"SubscriptionValidationEvent"},
     validationCode : ValidationCodes]
    \cup [format : {"eventgrid"}, eventType : {"IncomingCall"}, data : {FALSE}]
    \cup [format : {"eventgrid"}, eventType : {"IncomingCall"}, data : {TRUE},
          to : DialledNumbers \cup {None}, from : BOOLEAN,
          conn : BOOLEAN, ctx : BOOLEAN]
    \cup [format : {"eventgrid"}, eventType : {"Other"}]
    \cup [format : {"legacy"}, phoneNumber : DialledNumbers \cup {None},
          callerNumber : BOOLEAN]

\* A check of the incoming-call event that looks at the data only.
IncomingCallEventCompleteLax(body) == body.data

\* The incoming-call event has its data and both numbers.
IncomingCallEventComplete(body) ==
    body.data /\ body.to # None /\ body.from

\* The legacy fields as destructured from the body: an array has neither.
LegacyComplete(body) ==
    body.format = "legacy" /\ body.phoneNumber # None /\ body.callerNumber

\* CallController.handleIncomingCall, from the request body on.
HandleIncomingCall(body) ==
    IF body.format = "eventgrid" /\ body.eventType = "SubscriptionValidationEvent"
    THEN /\ last' = ValidationReply("handleIncomingCall", body.validationCode)
         /\ UNCHANGED <<agents, groups, calls, now, acsMode, clients, console, routing, pending,
                        sessions>>
    ELSE IF body.format = "eventgrid" /\ body.eventType = "IncomingCall"
    THEN IF IncomingCallEventComplete(body)
         THEN IncomingCallWebhook(body.to, body.conn, body.ctx)
         ELSE /\ last' = BadRequest("handleIncomingCall")
              /\ UNCHANGED <<agents, groups, calls, now, acsMode, clients, console, routing,
                             pending, sessions>>
    ELSE IF LegacyComplete(body)
         THEN IncomingCallWebhook(body.phoneNumber, FALSE, FALSE)
         ELSE /\ last' = BadRequest("handleIncomingCall")
              /\ UNCHANGED <<agents, groups, calls, now, acsMode, clients, console, routing,
                             pending, sessions>>

\* CallService.handleIncomingCall up to its first await: the group is looked
\* up, the call is created, and assignCallToAgent (which has no await of its
\* own) picks and reserves an agent; the invocation is then suspended.
RoutingStart(phoneNumber, conn, ctx) ==
    /\ Len(calls) < MaxInterleaved
    /\ LET groupId == GetGroupByPhoneNumber(groups, phoneNumber)
           callId == Len(calls) + 1
       IN IF groupId = None
          THEN /\ last' = Rejected("handleIncomingCall")
               /\ UNCHANGED <<agents, calls, sessions, routing>>
          ELSE LET call == NewCall(groupId,
                               IF conn THEN RealConnectionId(callId) ELSE None, ctx)
                   r == CallAssignCallToAgent(agents, groupId, callId)
               IN /\ calls' = Append(calls, call)
                  /\ agents' = r.agents
                  /\ routing' = routing \cup
                        {[callId |-> callId, agent |-> r.agent,
                          overflowGroups |-> <<>>, next |-> 0]}
                  /\ sessions' = IF conn THEN SessionUp(RealConnectionId(callId))
                                 ELSE sessions
                  /\ UNCHANGED last
    /\ UNCHANGED <<groups, now, acsMode, clients, console, pending>>

\* The invocation goes on after an await.  With an agent reserved the call
\* is given to the agent and rings.  Without one, tryOverflowRouting starts
\* (next = 0: the candidates are listed) or goes on: the loop runs to the
\* first candidate that has an available agent now, moves the call to that
\* group, and assignCallToAgent picks and reserves; with no candidate left
\* the call stays as it is.
RoutingResume(inv) ==
    /\ inv \in routing
    /\ LET callId == inv.callId
           call == calls[callId]
           overflowGroups == IF inv.next = 0
                             THEN GetAvailableGroups(groups, agents, call.groupId)
                             ELSE inv.overflowGroups
           positions == OverflowPositions(agents, overflowGroups,
                                          IF inv.next = 0 THEN 1 ELSE inv.next)
       IN IF inv.agent # None
          THEN /\ calls' = [calls EXCEPT ![callId] =
                               [call EXCEPT !.assignedAgentId = inv.agent,
                                            !.status = RINGING]]
               /\ routing' = routing \ {inv}
               /\ last' = Returned("handleIncomingCall", TRUE, FALSE,
                                   {"call_incoming"})
               /\ UNCHANGED agents
          ELSE IF positions = {}
          THEN /\ routing' = routing \ {inv}
               /\ last' = Returned("handleIncomingCall", TRUE, FALSE, {})
               /\ UNCHANGED <<agents, calls>>
          ELSE LET i == Min(positions)
                   r == CallAssignCallToAgent(agents, overflowGroups[i], callId)
               IN /\ calls' = [calls EXCEPT ![callId].groupId = overflowGroups[i]]
                  /\ agents' = r.agents
                  /\ routing' = (routing \ {inv}) \cup
                        {[callId |-> callId, agent |-> r.agent,
                          overflowGroups |-> overflowGroups, next |-> i + 1]}
                  /\ UNCHANGED last
    /\ UNCHANGED <<groups, now, acsMode, clients, console, pending, sessions>>

\* An answer check that does not look at the call's status.
AnswerCallValidAnyStatus(callId, agentId) ==
    /\ callId \in 1..Len(calls)
    /\ calls[callId].assignedAgentId = agentId

\* The first check of CallService.answerCall.
AnswerCallValid(callId, agentId) ==
    /\ callId \in 1..Len(calls)
    /\ calls[callId].assignedAgentId = agentId
    /\ calls[callId].status = RINGING

\* POST /api/calls/:callId/answer: CallService.answerCall up to the await of
\* the gateway; without a client, or with a localhost callback, ACSService
\* answers at once.
AnswerCallRequest(callId, agentId) ==
    IF ~AnswerCallValid(callId, agentId)
    THEN /\ last' = Rejected("answerCall")
         /\ UNCHANGED <<agents, groups, calls, now, acsMode, clients, console, routing, pending, sessions>>
    ELSE IF acsMode = "none"
    THEN /\ AnswerCallEffect(callId, calls[callId].acsCallConnectionId)
         /\ last' = Answered(agentId)
         /\ UNCHANGED <<now, acsMode, clients, console, routing, pending, sessions>>
    ELSE IF ~calls[callId].acsIncomingCallContext
    THEN /\ last' = Returned("answerCall", FALSE, TRUE, {})
         /\ UNCHANGED <<agents, groups, calls, now, acsMode, clients, console, routing, pending, sessions>>
    ELSE IF acsMode = "localhost"
    THEN /\ AnswerCallEffect(callId, MockConnectionId(now))
         /\ last' = Answered(agentId)
         /\ UNCHANGED <<now, acsMode, clients, console, routing, pending, sessions>>
    ELSE /\ Cardinality(pending) < MaxPending
         /\ pending' = pending \cup
                {[kind |-> "answer", callId |-> callId, src |-> "api"]}
         /\ UNCHANGED <<agents, groups, calls, now, acsMode, clients, console, routing, sessions, last>>

\* An answer that is taken as given although the gateway failed.
AnswerCallFailsButConnects(p) ==
    /\ p \in pending /\ p.kind = "answer"
    /\ AnswerCallEffect(p.callId, calls[p.callId].acsCallConnectionId)
    /\ pending' = pending \ {p}
    /\ last' = Answered(calls[p.callId].assignedAgentId)
    /\ UNCHANGED <<now, acsMode, clients, console, routing, sessions>>

\* callAutomationClient.answerCall throws: answerCall returns false.
AnswerCallFails(p) ==
    /\ p \in pending /\ p.kind = "answer"
    /\ pending' = pending \ {p}
    /\ last' = Returned("answerCall", FALSE, TRUE, {})
    /\ UNCHANGED <<agents, groups, calls, now, acsMode, clients, console, routing, sessions>>

\* callAutomationClient.answerCall returns.  extracted: the connection id is
\* found in the result.  handoff: the agent's ACS user id is known, so the
\* service waits and transfers the call to the agent before it returns.
AnswerCallAnswered(p, extracted, handoff) ==
    /\ p \in pending /\ p.kind = "answer"
    /\ LET conn == IF extracted THEN RealConnectionId(p.callId)
                   ELSE calls[p.callId].acsCallConnectionId
       IN IF extracted /\ handoff
          THEN /\ calls' = [calls EXCEPT ![p.callId].acsCallConnectionId = conn]
               /\ pending' = (pending \ {p}) \cup {[p EXCEPT !.kind = "handoff"]}
               /\ UNCHANGED <<agents, groups, last>>
          ELSE /\ AnswerCallEffect(p.callId, conn)
               /\ pending' = pending \ {p}
               /\ last' = Answered(calls[p.callId].assignedAgentId)
    /\ sessions' = SessionUp(RealConnectionId(p.callId))
    /\ UNCHANGED <<now, acsMode, clients, console, routing>>

\* transferCallToAgent returns true (transferred) or, when
\* transferCallToParticipant threw, false; ACSService.answerCall does not look
\* at the result and returns true.
AnswerCallHandoffReturns(p, transferred) ==
    /\ p \in pending /\ p.kind = "handoff"
    /\ AnswerCallEffect(p.callId, calls[p.callId].acsCallConnectionId)
    /\ pending' = pending \ {p}
    /\ last' = Answered(calls[p.callId].assignedAgentId)
    /\ UNCHANGED <<now, acsMode, clients, console, routing, sessions>>

\* The handoff returns, with either result: answerCall goes on.
AnswerCallHandedOff(p) ==
    \E transferred \in BOOLEAN : AnswerCallHandoffReturns(p, transferred)

\* An authorization that lets any agent end any call.
EndCallAuthorizedAlways(call, agentId) == TRUE

\* CallService.endCall: an agent, if given, must be the call's assigned agent.
EndCallAuthorized(call, agentId) ==
    agentId = None \/ call.assignedAgentId = agentId

\* CallService.endCall(callId, agentId) up to the await of the gateway; src
\* tells the endpoint (POST /api/calls/:callId/end) from the disconnect event.
EndCall(callId, agentId, src) ==
    IF callId \notin 1..Len(calls) \/ ~EndCallAuthorized(calls[callId], agentId)
    THEN /\ last' = Rejected("endCall")
         /\ UNCHANGED <<agents, groups, calls, now, acsMode, clients, console, routing, pending>>
    ELSE IF EndsWithoutGateway(calls[callId])
    THEN /\ CanRelease(callId)
         /\ EndCallEffect(callId)
         /\ last' = EndedCall(calls[callId])
         /\ UNCHANGED <<now, acsMode, clients, console, routing, pending>>
    ELSE /\ Cardinality(pending) < MaxPending
         /\ pending' = pending \cup
                {[kind |-> "end", callId |-> callId, src |-> src]}
         /\ UNCHANGED <<agents, groups, calls, now, acsMode, clients, console, routing, last>>

EndCallRequest(callId, agentId) ==
    EndCall(callId, agentId, "api") /\ UNCHANGED sessions

\* An end that goes on whatever the hangUp did.
HangUpReturnsIgnored(p, ok) ==
    /\ p \in pending /\ p.kind = "end"
    /\ pending' = pending \ {p}
    /\ CanRelease(p.callId)
    /\ EndCallEffect(p.callId)
    /\ last' = EndedCall(calls[p.callId])
    /\ UNCHANGED <<now, acsMode, clients, console, routing, sessions>>

\* callConnection.hangUp returns or throws.
HangUpReturns(p, ok) ==
    /\ p \in pending /\ p.kind = "end"
    /\ pending' = pending \ {p}
    /\ IF ok
       THEN /\ CanRelease(p.callId)
            /\ EndCallEffect(p.callId)
            /\ last' = EndedCall(calls[p.callId])
       ELSE /\ last' = Returned("endCall", FALSE, TRUE, {})
            /\ UNCHANGED <<agents, groups, calls>>
    /\ UNCHANGED <<now, acsMode, clients, console, routing, sessions>>

\* What callConnection.hangUp did: it returned, or it threw an error that
\* says "Call not found" or carries code 8522, or it threw another error.
HangUpOutcomes == {"returned", "not_found", "error"}

\* A catch block that takes every error for a failure.
HangUpSucceedsOnReturnOnly(outcome) == outcome = "returned"

\* ACSService.endCall from the hangUp on: true after the return and in the
\* catch block for "Call not found" / 8522, false for every other error.
HangUpSucceeds(outcome) == outcome \in {"returned", "not_found"}

\* The awaited ACSService.endCall settles and CallService.endCall goes on.
HangUp(p, outcome) == HangUpReturns(p, HangUpSucceeds(outcome))

\* POST /api/calls/:callId/transfer: CallService.transferCall.
TransferCallRequest(callId, fromAgentId, toAgentId) ==
    IF \/ callId \notin 1..Len(calls)
       \/ toAgentId \notin DOMAIN agents
       \/ calls[callId].assignedAgentId # fromAgentId
       \/ agents[toAgentId].status # AVAILABLE
    THEN /\ last' = Rejected("transferCall")
         /\ UNCHANGED <<agents, groups, calls, now, acsMode, clients, console, routing, pending, sessions>>
    ELSE LET call == calls[callId]
             releases == call.duration # Undef /\ call.duration # 0
             released == IF releases
                         THEN ReleaseAgentFromCall(agents, fromAgentId,
                                                   call.duration).agents
                         ELSE agents
             r == AssignCallToAgent(released, toAgentId, callId)
         IN /\ releases => CanCount(fromAgentId)
            /\ agents' = r.agents
            /\ calls' = IF r.ok
                        THEN [calls EXCEPT ![callId] =
                                 [call EXCEPT !.assignedAgentId = toAgentId,
                                              !.status = TRANSFERRED]]
                        ELSE calls
            /\ last' = IF r.ok
                       THEN Returned("transferCall", TRUE, FALSE,
                                     {"call_transferred_out", "call_transferred_in"})
                       ELSE Rejected("transferCall")
            /\ UNCHANGED <<groups, now, acsMode, clients, console, routing, pending, sessions>>

\* PATCH /api/agents/:id/status: AgentController.updateAgentStatus.
UpdateAgentStatusRequest(id, status) ==
    /\ status \in AgentStatus
    /\ agents' = UpdateAgentStatus(agents, id, status)
    /\ last' = IF id \in DOMAIN agents
               THEN Returned("updateAgentStatus", TRUE, FALSE,
                             {"agent_status_updated", "status_updated"})
               ELSE Rejected("updateAgentStatus")
    /\ UNCHANGED <<groups, calls, now, acsMode, clients, console, routing, pending, sessions>>

\* PUT /api/agents/:id: AgentController.updateAgent, the request body merged
\* into the agent as it is.
UpdateAgentRequest(id, updates) ==
    /\ agents' = UpdateAgent(agents, id, updates)
    /\ last' = IF id \in DOMAIN agents
               THEN Returned("updateAgent", TRUE, FALSE,
                             {"agent_updated", "status_updated"})
               ELSE Rejected("updateAgent")
    /\ UNCHANGED <<groups, calls, now, acsMode, clients, console, routing, pending, sessions>>

\* The control plane sends events for a connection while its session is up.
CanSend(conn) == sessions[conn] = "up"

Processed(notified) == Returned("handleACSCallEvents", TRUE, FALSE, notified)

\* POST /api/calls/events, Microsoft.Communication.CallConnected.
CallConnectedEvent(conn) ==
    /\ CanSend(conn)
    /\ LET callId == FindCallByACSConnectionId(conn)
       IN IF callId = None
          THEN /\ last' = Processed({})
               /\ UNCHANGED calls
          ELSE /\ calls' = [calls EXCEPT ![callId].status = CONNECTED]
               /\ last' = Processed({"call_connected"})
    /\ UNCHANGED <<agents, groups, now, acsMode, clients, console, routing, pending, sessions>>

\* A disconnect handler that ends the call whatever the reason.
CallDisconnectedEventAnyReason(conn, isTransferDisconnect) ==
    /\ CanSend(conn)
    /\ LET callId == FindCallByACSConnectionId(conn)
       IN /\ sessions' = [sessions EXCEPT ![conn] = "down"]
          /\ IF callId = None \/ calls[callId].status = ENDED
             THEN /\ last' = Processed({})
                  /\ UNCHANGED <<agents, groups, calls, now, acsMode, clients,
                                 console, routing, pending>>
             ELSE EndCall(callId, None, "event")

\* POST /api/calls/events, Microsoft.Communication.CallDisconnected.
\* isTransferDisconnect: the result information says "transfer completed
\* successfully" or carries subCode 7015.
CallDisconnectedEvent(conn, isTransferDisconnect) ==
    /\ CanSend(conn)
    /\ LET callId == FindCallByACSConnectionId(conn)
       IN IF isTransferDisconnect
          THEN /\ last' = Processed({})
               /\ UNCHANGED <<agents, groups, calls, now, acsMode, clients, console, routing, pending, sessions>>
          ELSE /\ sessions' = [sessions EXCEPT ![conn] = "down"]
               /\ IF callId = None \/ calls[callId].status = ENDED
                  THEN /\ last' = Processed({})
                       /\ UNCHANGED <<agents, groups, calls, now, acsMode, clients, console, routing, pending>>
                  ELSE EndCall(callId, None, "event")

\* POST /api/calls/events, CallTransferAccepted (accepted) or
\* CallTransferFailed: processCallAutomationEvent hands both to
\* handleCallTransferEvent, which does not look at the type.
CallTransferResultEvent(conn, accepted) ==
    /\ CanSend(conn)
    /\ LET callId == FindCallByACSConnectionId(conn)
       IN IF callId = None
          THEN UNCHANGED calls
          ELSE calls' = [calls EXCEPT ![callId].acsCallConnectionId = None]
    /\ last' = Processed({})
    /\ UNCHANGED <<agents, groups, now, acsMode, clients, console, routing, pending, sessions>>

\* A transfer-result event of either type.
CallTransferEvent(conn) ==
    \E accepted \in BOOLEAN : CallTransferResultEvent(conn, accepted)

\* POST /api/calls/events with one event that is a subscription validation
\* or of a type processCallAutomationEvent does not handle: a validation with
\* a code is echoed, everything else is logged and acknowledged.
EventBodies ==
    [eventType : {"SubscriptionValidationEvent"}, validationCode : ValidationCodes]
    \cup [eventType : {"Other"}]

HandleACSCallEvents(event) ==
    /\ last' = IF event.eventType = "SubscriptionValidationEvent"
                  /\ event.validationCode # ""
               THEN ValidationReply("handleACSCallEvents", event.validationCode)
               ELSE Processed({})
    /\ UNCHANGED <<agents, groups, calls, now, acsMode, clients, console, routing, pending, sessions>>

\* POST /api/groups/:groupId/agents/:agentId: GroupController.addAgentToGroup.
AddAgentToGroupRequest(groupId, agentId) ==
    LET r == AddAgentToGroup(groups, agents, groupId, agentId)
    IN /\ groups' = r.groups
       /\ agents' = r.agents
       /\ last' = IF r.ok
                  THEN Returned("addAgentToGroup", TRUE, FALSE, {"agent_added_to_group"})
                  ELSE Rejected("addAgentToGroup")
       /\ UNCHANGED <<calls, now, acsMode, clients, console, routing, pending, sessions>>

\* DELETE /api/groups/:groupId/agents/:agentId:
\* GroupController.removeAgentFromGroup.
RemoveAgentFromGroupRequest(groupId, agentId) ==
    LET r == RemoveAgentFromGroup(groups, agents, groupId, agentId)
    IN /\ groups' = r.groups
       /\ agents' = r.agents
       /\ last' = IF r.ok
                  THEN Returned("removeAgentFromGroup", TRUE, FALSE,
                                {"agent_removed_from_group"})
                  ELSE Rejected("removeAgentFromGroup")
       /\ UNCHANGED <<calls, now, acsMode, clients, console, routing, pending, sessions>>

\* DELETE /api/agents/:id: AgentController.deleteAgent.
DeleteAgentRequest(id) ==
    IF id \notin DOMAIN agents
    THEN /\ last' = Rejected("deleteAgent")
         /\ UNCHANGED <<agents, groups, calls, now, acsMode, clients, console, routing, pending,
                        sessions>>
    ELSE /\ agents' = DeleteAgent(agents, id)
         /\ clients' = DisconnectAgent(clients, id)
         /\ last' = Returned("deleteAgent", TRUE, FALSE, {"agent_deleted"})
         /\ UNCHANGED <<groups, calls, now, acsMode, console, routing, pending, sessions>>

\* A WebSocket client connects and sends authenticate_agent with agentId.
AuthenticateAgent(agentId) ==
    /\ clients[agentId] < MaxClients
    /\ clients' = [clients EXCEPT ![agentId] = @ + 1]
    /\ UNCHANGED <<agents, groups, calls, now, acsMode, console, routing, pending, sessions, last>>

\* A connection of the agent closes (ws 'close' or 'error').
ClientCloses(agentId) ==
    /\ clients[agentId] > 0
    /\ clients' = [clients EXCEPT ![agentId] = @ - 1]
    /\ UNCHANGED <<agents, groups, calls, now, acsMode, console, routing, pending, sessions, last>>

\* POST /api/groups: GroupController.createGroup.  phoneNumber None is a
\* request without the field.
CreateGroupRequest(request) ==
    IF request.phoneNumber = None
    THEN /\ last' = Rejected("createGroup")
         /\ UNCHANGED <<agents, groups, calls, now, acsMode, clients, console, routing, pending,
                        sessions>>
    ELSE /\ Cardinality(DOMAIN groups) < MaxGroups
         /\ groups' = CreateGroup(groups, request)
         /\ last' = Returned("createGroup", TRUE, FALSE, {"group_created"})
         /\ UNCHANGED <<agents, calls, now, acsMode, clients, console, routing, pending, sessions>>

\* PUT /api/groups/:id: GroupController.updateGroup.
UpdateGroupRequest(id, updates) ==
    /\ groups' = UpdateGroup(groups, id, updates)
    /\ last' = IF id \in DOMAIN groups
               THEN Returned("updateGroup", TRUE, FALSE, {"group_updated"})
               ELSE Rejected("updateGroup")
    /\ UNCHANGED <<agents, calls, now, acsMode, clients, console, routing, pending, sessions>>

\* The console calls connect (the agent's login, the dashboard's ngOnInit).
ConsoleConnect ==
    /\ console.ws = "none"
    /\ console.timers < MaxTimers
    /\ console' = ConnectSocket([console EXCEPT !.agentId = TRUE])
    /\ UNCHANGED <<agents, groups, calls, now, acsMode, clients, routing, pending,
                   sessions, last>>

\* What onopen does to the service.
SocketOpened(c) ==
    [c EXCEPT !.reconnectAttempts = 0, !.attempts = 0, !.signalled = FALSE]

\* onopen of this.ws, or of a detached socket.
ConsoleSocketOpens(current) ==
    /\ IF current
       THEN /\ console.ws = "connecting"
            /\ console' = SocketOpened([console EXCEPT !.ws = "open"])
       ELSE /\ console.detached.connecting > 0
            /\ console' = SocketOpened(
                  [console EXCEPT !.detached.connecting = @ - 1,
                                  !.detached.open = @ + 1])
    /\ UNCHANGED <<agents, groups, calls, now, acsMode, clients, routing, pending,
                   sessions, last>>

\* onclose of this.ws (the connection failed or dropped), or of a detached
\* socket in state s.
ConsoleSocketCloses(current, s) ==
    /\ console.timers < MaxTimers
    /\ IF current
       THEN /\ console.ws \in {"connecting", "open"}
            /\ console' = HandleReconnect([console EXCEPT !.ws = "closed"])
       ELSE /\ console.detached[s] > 0
            /\ console' = HandleReconnect([console EXCEPT !.detached[s] = @ - 1])
    /\ UNCHANGED <<agents, groups, calls, now, acsMode, clients, routing, pending,
                   sessions, last>>

\* A reconnect timer fires: the agent console connects if it still has an
\* agentId, the supervisor console connects.
ConsoleTimerFires ==
    /\ console.timers > 0
    /\ console.attempts < MaxAttempts
    /\ console.detached.connecting + console.detached.open < MaxDetached
    /\ LET fired == [console EXCEPT !.timers = @ - 1]
       IN console' = IF console.role = "agent" /\ ~console.agentId
                     THEN fired
                     ELSE ConnectSocket([fired EXCEPT !.attempts = @ + 1])
    /\ UNCHANGED <<agents, groups, calls, now, acsMode, clients, routing, pending,
                   sessions, last>>

\* disconnect (the agent's logout, the dashboard's ngOnDestroy).
ConsoleDisconnect ==
    /\ console.agentId
    /\ console.ws # "none"
    /\ console.detached.closing < MaxDetached
    /\ console' =
          [console EXCEPT
             !.detached.closing = IF console.ws \in {"connecting", "open"}
                                  THEN @ + 1 ELSE @,
             !.ws = "none",
             !.agentId = (console.role = "supervisor"),
             !.reconnectAttempts = 0]
    /\ UNCHANGED <<agents, groups, calls, now, acsMode, clients, routing, pending,
                   sessions, last>>

\* ------------------------------------------------------------- Init
\* A group as the group endpoints leave it: created with phone number g, its
\* members added with addAgentToGroup while they were OFFLINE (which
\* refreshes the statistics), its overflow list and switch set.
SetUpGroup(g, members, overflowGroupIds, overflowEnabled) ==
    [phoneNumber |-> g,
     agentIds |-> members,
     overflowGroupIds |-> overflowGroupIds,
     overflowEnabled |-> overflowEnabled,
     statistics |-> [NewGroupStatistics EXCEPT !.totalAgents = Cardinality(members)]]

\* m[a]: the groups agent a was added to.
SetUpAgents(m) == [a \in DOMAIN m |-> NewAgent(m[a])]

NoCalls ==
    /\ calls = <<>>
    /\ now = 0
    /\ pending = {}
    /\ sessions = [conn \in ConnectionIds |-> "none"]
    /\ last = Returned("none", TRUE, FALSE, {})
    /\ clients = [a \in AgentIds |-> 0]
    /\ console = NewConsole("agent", FALSE)
    /\ routing = {}

\* One group with one agent (agent 2 is an id of no agent).
OneAgentSetUp ==
    /\ agents = SetUpAgents(<<{1}>>)
    /\ groups = [g \in {1} |-> SetUpGroup(g, {1}, <<>>, FALSE)]

\* The development server: no ACS connection string, so ACSService has no
\* client and mocks every gateway operation.
Init ==
    /\ OneAgentSetUp
    /\ acsMode = "none"
    /\ NoCalls

\* The requests the consoles and the legacy webhook format send.
StatusValues == AgentStatus

AgentUpdates ==
    {[currentCallId |-> c] : c \in {None} \cup (1..MaxCalls)}

Next ==
    \/ Tick
    \/ \E n \in DialledNumbers : IncomingCallWebhook(n, FALSE, FALSE)
    \/ \E c \in 1..MaxCalls, a \in AgentIds : AnswerCallRequest(c, a)
    \/ \E c \in 1..MaxCalls, a \in AgentIds \cup {None} : EndCallRequest(c, a)
    \/ \E c \in 1..MaxCalls, a \in AgentIds, b \in AgentIds :
          TransferCallRequest(c, a, b)
    \/ \E a \in AgentIds, s \in StatusValues : UpdateAgentStatusRequest(a, s)
    \/ \E a \in AgentIds, u \in AgentUpdates : UpdateAgentRequest(a, u)

Spec == Init /\ [][Next]_vars

\* The server with an ACS client: answerCall and endCall await the control
\* plane, whose events arrive at /api/calls/events.
InitLive ==
    /\ OneAgentSetUp
    /\ acsMode \in {"localhost", "live"}
    /\ NoCalls

NextLive ==
    \/ Tick
    \/ /\ Len(calls) < MaxLiveCalls
       /\ \E conn \in BOOLEAN, ctx \in BOOLEAN : IncomingCallWebhook(1, conn, ctx)
    \/ \E c \in 1..MaxCalls, a \in AgentIds : AnswerCallRequest(c, a)
    \/ \E p \in pending : AnswerCallFails(p)
    \/ \E p \in pending, x \in BOOLEAN, h \in BOOLEAN : AnswerCallAnswered(p, x, h)
    \/ \E p \in pending : AnswerCallHandedOff(p)
    \/ \E c \in 1..MaxCalls, a \in AgentIds \cup {None} : EndCallRequest(c, a)
    \/ \E p \in pending, o \in HangUpOutcomes : HangUp(p, o)
    \/ \E a \in AgentIds, s \in StatusValues : UpdateAgentStatusRequest(a, s)
    \/ \E conn \in ConnectionIds : CallConnectedEvent(conn)
    \/ \E conn \in ConnectionIds, t \in BOOLEAN : CallDisconnectedEvent(conn, t)
    \/ \E conn \in ConnectionIds : CallTransferEvent(conn)

SpecLive == InitLive /\ [][NextLive]_vars

\* Routing: three groups, two agents in any of a family of memberships, group
\* 1 with any overflow list over groups 2, 3 and 4 (no group has id 4) and
\* its overflow switch on or off; agents change status and calls come in.
RoutingMemberships ==
    { <<m1, m2>> : m1 \in {{1}, {2}, {1, 2}, {}}, m2 \in {{1}, {2}, {3}, {2, 3}} }

RoutingOverflowLists ==
    {<<>>} \cup { <<x>> : x \in {2, 3, 4} }
           \cup { <<x, y>> : x \in {2, 3, 4}, y \in {2, 3, 4} }

InitRouting ==
    /\ \E m \in RoutingMemberships, l \in RoutingOverflowLists, e \in BOOLEAN :
          /\ agents = SetUpAgents(m)
          /\ groups = [g \in GroupIds |->
                          SetUpGroup(g, {a \in AgentIds : g \in m[a]},
                                     IF g = 1 THEN l ELSE <<>>,
                                     IF g = 1 THEN e ELSE FALSE)]
    /\ acsMode = "none"
    /\ NoCalls

NextRouting ==
    \/ /\ Len(calls) < MaxRoutedCalls
       /\ \E n \in DialledNumbers : IncomingCallWebhook(n, FALSE, FALSE)
    \/ \E a \in AgentIds, s \in StatusValues : UpdateAgentStatusRequest(a, s)

SpecRouting == InitRouting /\ [][NextRouting]_vars

\* Calls nobody ends through the API, against a control plane whose hangUp
\* succeeds: what the server does with the telephony events alone.  Every
\* awaited gateway request returns.
NextUnattended ==
    \/ Tick
    \/ /\ Len(calls) < MaxLiveCalls
       /\ \E conn \in BOOLEAN, ctx \in BOOLEAN : IncomingCallWebhook(1, conn, ctx)
    \/ \E c \in 1..MaxCalls, a \in AgentIds : AnswerCallRequest(c, a)
    \/ \E p \in pending : AnswerCallFails(p)
    \/ \E p \in pending, x \in BOOLEAN, h \in BOOLEAN : AnswerCallAnswered(p, x, h)
    \/ \E p \in pending : AnswerCallHandedOff(p)
    \/ \E p \in pending : HangUpReturns(p, TRUE)
    \/ \E a \in AgentIds, s \in StatusValues : UpdateAgentStatusRequest(a, s)
    \/ \E conn \in ConnectionIds : CallConnectedEvent(conn)
    \/ \E conn \in ConnectionIds, t \in BOOLEAN : CallDisconnectedEvent(conn, t)
    \/ \E conn \in ConnectionIds : CallTransferEvent(conn)

GatewayReturns ==
    \/ \E p \in pending : AnswerCallFails(p)
    \/ \E p \in pending, x \in BOOLEAN, h \in BOOLEAN : AnswerCallAnswered(p, x, h)
    \/ \E p \in pending : AnswerCallHandedOff(p)
    \/ \E p \in pending : HangUpReturns(p, TRUE)

InitUnattended ==
    /\ OneAgentSetUp
    /\ acsMode = "live"
    /\ NoCalls

SpecUnattended ==
    InitUnattended /\ [][NextUnattended]_vars /\ WF_vars(GatewayReturns)

\* The answer and end operations against the live gateway, whose requests
\* succeed or fail; the agent logs in (AVAILABLE) and calls come in.
NextGateway ==
    \/ Tick
    \/ /\ Len(calls) < MaxLiveCalls
       /\ \E conn \in BOOLEAN, ctx \in BOOLEAN : IncomingCallWebhook(1, conn, ctx)
    \/ \E c \in 1..MaxCalls, a \in AgentIds : AnswerCallRequest(c, a)
    \/ \E p \in pending : AnswerCallFails(p)
    \/ \E p \in pending, x \in BOOLEAN, h \in BOOLEAN : AnswerCallAnswered(p, x, h)
    \/ \E p \in pending : AnswerCallHandedOff(p)
    \/ \E c \in 1..MaxCalls, a \in AgentIds \cup {None} : EndCallRequest(c, a)
    \/ \E p \in pending, o \in HangUpOutcomes : HangUp(p, o)
    \/ \E a \in AgentIds : UpdateAgentStatusRequest(a, AVAILABLE)

SpecGateway == InitUnattended /\ [][NextGateway]_vars

\* Transfers: group 1 with two agents on the development server.
InitTransfer ==
    /\ agents = SetUpAgents(<<{1}, {1}>>)
    /\ groups = [g \in {1} |-> SetUpGroup(g, {1, 2}, <<>>, FALSE)]
    /\ acsMode = "none"
    /\ NoCalls

NextTransfer ==
    \/ Tick
    \/ /\ Len(calls) < MaxTransferCalls
       /\ IncomingCallWebhook(1, FALSE, FALSE)
    \/ \E c \in 1..MaxCalls, a \in AgentIds : AnswerCallRequest(c, a)
    \/ \E c \in 1..MaxCalls, a \in AgentIds \cup {None} : EndCallRequest(c, a)
    \/ \E c \in 1..MaxCalls, a \in AgentIds, b \in AgentIds :
          TransferCallRequest(c, a, b)
    \/ \E a \in AgentIds, s \in StatusValues : UpdateAgentStatusRequest(a, s)
    \/ \E a \in AgentIds : UpdateAgentRequest(a, [statistics |-> NewStatistics])

SpecTransfer == InitTransfer /\ [][NextTransfer]_vars

\* Removal: group 1 with its agent on the development server; calls come
\* in, are answered and ended, and the supervisor deletes agents.
NextRemoval ==
    \/ Tick
    \/ /\ Len(calls) < MaxLiveCalls
       /\ IncomingCallWebhook(1, FALSE, FALSE)
    \/ \E c \in 1..MaxCalls, a \in AgentIds : AnswerCallRequest(c, a)
    \/ \E c \in 1..MaxCalls, a \in AgentIds \cup {None} : EndCallRequest(c, a)
    \/ \E a \in AgentIds, s \in StatusValues : UpdateAgentStatusRequest(a, s)
    \/ \E a \in AgentIds : DeleteAgentRequest(a)

SpecRemoval == Init /\ [][NextRemoval]_vars

\* The calendar: group 1 with its agent on the development server; calls
\* come in and are ended over days, weeks and months.
NextCalendar ==
    \/ TimePasses
    \/ /\ Len(calls) < MaxCounterCalls
       /\ IncomingCallWebhook(1, FALSE, FALSE)
    \/ \E c \in 1..MaxCounterCalls : EndCallRequest(c, None)
    \/ UpdateAgentStatusRequest(1, AVAILABLE)

SpecCalendar == Init /\ [][NextCalendar]_vars

\* The directory: two groups as created, two agents as created with any
\* initial groupIds (createAgent stores the request's groupIds and touches
\* no group); memberships change, agents connect and are deleted.  No group
\* has id 3.
InitDirectory ==
    /\ \E gs \in [AgentIds -> SUBSET {1, 2}] :
          agents = [a \in AgentIds |-> NewAgent(gs[a])]
    /\ groups = [g \in {1, 2} |-> SetUpGroup(g, {}, <<>>, FALSE)]
    /\ acsMode = "none"
    /\ NoCalls

NextDirectory ==
    \/ \E g \in GroupIds, a \in AgentIds : AddAgentToGroupRequest(g, a)
    \/ \E g \in GroupIds, a \in AgentIds : RemoveAgentFromGroupRequest(g, a)
    \/ \E a \in AgentIds : DeleteAgentRequest(a)
    \/ \E a \in AgentIds : AuthenticateAgent(a)
    \/ \E a \in AgentIds : ClientCloses(a)
    \/ \E a \in AgentIds : UpdateAgentStatusRequest(a, AVAILABLE)

SpecDirectory == InitDirectory /\ [][NextDirectory]_vars

\* Memberships: two groups as created and two agents as initializeTestAgents
\* creates them, in no group; the supervisor adds and removes members, edits
\* agents (PUT /api/agents/:id with groupIds) and deletes them.
InitMembership ==
    /\ agents = [a \in AgentIds |-> NewAgent({})]
    /\ groups = [g \in {1, 2} |-> SetUpGroup(g, {}, <<>>, FALSE)]
    /\ acsMode = "none"
    /\ NoCalls

NextMembership ==
    \/ \E g \in GroupIds, a \in AgentIds : AddAgentToGroupRequest(g, a)
    \/ \E g \in GroupIds, a \in AgentIds : RemoveAgentFromGroupRequest(g, a)
    \/ \E a \in AgentIds, gs \in SUBSET {1, 2} :
          UpdateAgentRequest(a, [groupIds |-> gs])
    \/ \E a \in AgentIds : DeleteAgentRequest(a)

SpecMembership == InitMembership /\ [][NextMembership]_vars

\* The groups: none at first; groups are created and updated, and numbers
\* are looked up by incoming calls.  No agent exists.
PhoneNumbers == {1, 2}

InitGroups ==
    /\ agents = <<>>
    /\ groups = <<>>
    /\ acsMode = "none"
    /\ NoCalls

NextGroups ==
    \/ \E phoneNumber \in PhoneNumbers \cup {None}, overflowEnabled \in BOOLEAN :
          CreateGroupRequest([phoneNumber |-> phoneNumber,
                              overflowGroupIds |-> <<>>,
                              overflowEnabled |-> overflowEnabled])
    \/ \E id \in 1..MaxGroups, phoneNumber \in PhoneNumbers :
          UpdateGroupRequest(id, [phoneNumber |-> phoneNumber])
    \/ \E id \in 1..MaxGroups, overflowEnabled \in BOOLEAN :
          UpdateGroupRequest(id, [overflowEnabled |-> overflowEnabled])

SpecGroups == InitGroups /\ [][NextGroups]_vars

\* The webhooks: the development server with every body the two webhook
\* endpoints parse, the events of the connections the incoming calls named,
\* and the agent changing status and ending calls.
InitWebhook ==
    /\ OneAgentSetUp
    /\ acsMode = "none"
    /\ NoCalls

NextWebhook ==
    \/ Tick
    \/ \E body \in IncomingBodies :
          /\ \/ Len(calls) < MaxLiveCalls
             \/ body.format = "eventgrid" /\ body.eventType # "IncomingCall"
             \/ body.format = "eventgrid" /\ body.eventType = "IncomingCall"
                   /\ ~IncomingCallEventComplete(body)
             \/ body.format = "legacy" /\ ~LegacyComplete(body)
          /\ HandleIncomingCall(body)
    \/ \E event \in EventBodies : HandleACSCallEvents(event)
    \/ \E conn \in ConnectionIds : CallConnectedEvent(conn)
    \/ \E conn \in ConnectionIds, t \in BOOLEAN : CallDisconnectedEvent(conn, t)
    \/ \E conn \in ConnectionIds : CallTransferEvent(conn)
    \/ \E c \in 1..MaxCalls, a \in AgentIds : AnswerCallRequest(c, a)
    \/ \E c \in 1..MaxCalls : EndCallRequest(c, None)
    \/ \E a \in AgentIds : UpdateAgentStatusRequest(a, AVAILABLE)

SpecWebhook == InitWebhook /\ [][NextWebhook]_vars

\* A console against a server that may be down: sockets open, fail and
\* drop, timers fire, and the user leaves and comes back.
ConsoleRoles == {"agent", "supervisor"}

InitConsole ==
    /\ OneAgentSetUp
    /\ acsMode = "none"
    /\ calls = <<>>
    /\ now = 0
    /\ pending = {}
    /\ sessions = [conn \in ConnectionIds |-> "none"]
    /\ last = Returned("none", TRUE, FALSE, {})
    /\ clients = [a \in AgentIds |-> 0]
    /\ routing = {}
    /\ \E role \in ConsoleRoles, throws \in BOOLEAN :
          console = NewConsole(role, throws)

NextConsole ==
    \/ ConsoleConnect
    \/ \E current \in BOOLEAN : ConsoleSocketOpens(current)
    \/ \E current \in BOOLEAN, s \in DOMAIN NoSockets :
          ConsoleSocketCloses(current, s)
    \/ ConsoleTimerFires
    \/ ConsoleDisconnect

SpecConsole == InitConsole /\ [][NextConsole]_vars

\* Ends that overlap: against the live gateway, an end is asked for (by the
\* agent, or by a disconnect event) only while the call is not ENDED, so an
\* end that completes on an ENDED call passed its checks before the other's
\* hangUp returned.
NextOverlap ==
    \/ Tick
    \/ /\ Len(calls) < MaxLiveCalls
       /\ \E conn \in BOOLEAN, ctx \in BOOLEAN : IncomingCallWebhook(1, conn, ctx)
    \/ \E c \in 1..MaxCalls, a \in AgentIds : AnswerCallRequest(c, a)
    \/ \E p \in pending, x \in BOOLEAN : AnswerCallAnswered(p, x, FALSE)
    \/ \E c \in 1..Len(calls) :
          /\ calls[c].status # ENDED
          /\ EndCallRequest(c, calls[c].assignedAgentId)
    \/ \E conn \in ConnectionIds : CallDisconnectedEvent(conn, FALSE)
    \/ \E p \in pending : HangUpReturns(p, TRUE)
    \/ \E a \in AgentIds : UpdateAgentStatusRequest(a, AVAILABLE)

SpecOverlap == InitUnattended /\ [][NextOverlap]_vars

\* Incoming calls that interleave: the groups of the routing set-up, whose
\* agents are logged in (available) or not, and nothing but incoming calls,
\* each suspended at its awaits while the others run.
InitInterleaved ==
    /\ \E m \in RoutingMemberships, l \in RoutingOverflowLists, e \in BOOLEAN,
          st \in [AgentIds -> {AVAILABLE, OFFLINE}] :
          /\ agents = [a \in AgentIds |->
                          [NewAgent(m[a]) EXCEPT !.status = st[a]]]
          /\ groups = [g \in GroupIds |->
                          SetUpGroup(g, {a \in AgentIds : g \in m[a]},
                                     IF g = 1 THEN l ELSE <<>>,
                                     IF g = 1 THEN e ELSE FALSE)]
    /\ acsMode = "none"
    /\ NoCalls

NextInterleaved ==
    \/ \E n \in DialledNumbers \cup {2} : RoutingStart(n, FALSE, FALSE)
    \/ \E inv \in routing : RoutingResume(inv)

SpecInterleaved == InitInterleaved /\ [][NextInterleaved]_vars

\* ------------------------------------------------------------ claims
LiveStatuses == {RINGING, CONNECTED}

LiveCallsOf(a) ==
    {c \in 1..Len(calls) :
        calls[c].assignedAgentId = a /\ calls[c].status \in LiveStatuses}

\* C1: in every reachable state and for every agent, the agent is IN_CALL
\* exactly when its currentCallId is set, and exactly when some call assigned
\* to it is RINGING or CONNECTED.
C1_AgentCallConsistency ==
    \A a \in DOMAIN agents :
        /\ (agents[a].status = IN_CALL) <=> (agents[a].currentCallId # None)
        /\ (agents[a].status = IN_CALL) <=> (LiveCallsOf(a) # {})

\* C2: in every reachable state no agent is the assigned agent of two calls
\* that are RINGING or CONNECTED.
C2_AtMostOneLiveCall ==
    \A a \in DOMAIN agents : Cardinality(LiveCallsOf(a)) <= 1

\* C3: AgentService.assignCallToAgent succeeds exactly when the agent exists
\* and is AVAILABLE; on success that agent is IN_CALL with currentCallId =
\* callId; on failure (unknown agent, any other status) nothing changes.
C3_ReserveOnlyWhenAvailable ==
    \A agentId \in {1, 2, 3}, callId \in 1..MaxCalls :
        LET r == AssignCallToAgent(agents, agentId, callId)
        IN /\ r.ok <=> (agentId \in DOMAIN agents /\ agents[agentId].status = AVAILABLE)
           /\ r.ok => /\ r.agents[agentId].status = IN_CALL
                      /\ r.agents[agentId].currentCallId = callId
           /\ ~r.ok => r.agents = agents

\* C3 witness: a reservation has succeeded (the routed call's agent is IN_CALL
\* for it) while another agent, not AVAILABLE, is refused.
C3_Witness ==
    /\ Len(calls) = 1
    /\ calls[1].assignedAgentId # None
    /\ agents[calls[1].assignedAgentId].status = IN_CALL
    /\ agents[calls[1].assignedAgentId].currentCallId = 1
    /\ \E b \in DOMAIN agents :
          agents[b].status = BUSY /\ ~AssignCallToAgent(agents, b, 1).ok

\* C4: in every step, an agent's status/currentCallId pair is written, when
\* the agent is or becomes IN_CALL or its currentCallId changes, only by a
\* reservation (assignCallToAgent), a release (releaseAgentFromCall), or a
\* release followed by a reservation.
C4_OnlyReserveAndReleaseWrite ==
    [][\A a \in DOMAIN agents :
         LET before == agents[a]
             after == agents'[a]
             written == \/ before.status # after.status
                        \/ before.currentCallId # after.currentCallId
             guarded == \/ before.status = IN_CALL
                        \/ after.status = IN_CALL
                        \/ before.currentCallId # after.currentCallId
             reserved(ags) ==
                 \E c \in 1..MaxCalls :
                     /\ AssignCallToAgent(ags, a, c).ok
                     /\ after = AssignCallToAgent(ags, a, c).agents[a]
             released(d) == ReleaseAgentFromCall(agents, a, d).agents
         IN (written /\ guarded) =>
                \/ reserved(agents)
                \/ \E d \in 0..MaxTime : after = released(d)[a]
                \/ \E d \in 0..MaxTime : reserved(released(d))
      ]_vars

\* C5: whenever the genuine disconnect of the session of a call assigned to
\* an agent has been delivered, eventually the call is ENDED and that agent
\* is not IN_CALL for it (gateway requests return, hangUp succeeds).
C5_DisconnectFreesAgent ==
    \A c \in 1..MaxLiveCalls :
        (/\ sessions[RealConnectionId(c)] = "down"
         /\ c <= Len(calls)
         /\ calls[c].assignedAgentId # None)
        ~> (/\ c <= Len(calls)
            /\ calls[c].status = ENDED
            /\ \A a \in DOMAIN agents :
                  ~(agents[a].status = IN_CALL /\ agents[a].currentCallId = c))

\* C6: endCall on a call that a first endCall has already ended changes no
\* agent: neither status, nor currentCallId, nor statistics.
C6_SecondEndCallChangesNoAgent ==
    [][\A c \in 1..MaxCalls, a \in AgentIds \cup {None} :
         (/\ c <= Len(calls)
          /\ calls[c].endTime # Undef
          /\ EndCallRequest(c, a)) => agents' = agents
      ]_vars

\* C7: when a successful endCall ends a call that has an assigned agent, that
\* agent is AVAILABLE with no currentCallId afterwards, whatever the duration.
C7_EndCallReleasesAgent ==
    [][\A c \in 1..MaxCalls, a \in AgentIds \cup {None} :
         (/\ c <= Len(calls)
          /\ calls[c].status # ENDED
          /\ calls[c].assignedAgentId # None
          /\ EndCallRequest(c, a)
          /\ calls'[c].status = ENDED)
         => LET x == calls[c].assignedAgentId
            IN /\ agents'[x].status = AVAILABLE
               /\ agents'[x].currentCallId = None
      ]_vars

\* C8: the happy path with group 1 and its single member, agent 1.  A call to
\* the group's number while agent 1 is AVAILABLE becomes RINGING, assigned to
\* agent 1 in group 1, and agent 1 becomes IN_CALL; answerCall by agent 1 on
\* that call makes it CONNECTED; endCall by agent 1 on the connected call
\* makes it ENDED, agent 1 AVAILABLE and adds exactly 1 to its totalCalls.
C8_HappyPath ==
    [][/\ (/\ agents[1].status = AVAILABLE
           /\ IncomingCallWebhook(1, FALSE, FALSE))
          => LET call == calls'[Len(calls')]
             IN /\ Len(calls') = Len(calls) + 1
                /\ call.status = RINGING
                /\ call.assignedAgentId = 1
                /\ call.groupId = 1
                /\ agents'[1].status = IN_CALL
       /\ \A c \in 1..MaxCalls :
             LET happy(status) ==
                     /\ c <= Len(calls)
                     /\ calls[c].status = status
                     /\ calls[c].assignedAgentId = 1
                     /\ calls[c].groupId = 1
                     /\ agents[1].status = IN_CALL
                     /\ agents[1].currentCallId = c
             IN /\ (happy(RINGING) /\ AnswerCallRequest(c, 1))
                       => calls'[c].status = CONNECTED
                /\ (happy(CONNECTED) /\ EndCallRequest(c, 1))
                       => /\ calls'[c].status = ENDED
                          /\ agents'[1].status = AVAILABLE
                          /\ agents'[1].statistics.totalCalls =
                                 agents[1].statistics.totalCalls + 1
      ]_vars

\* The overflow groups of g in the configured order that exist and have an
\* AVAILABLE agent, as positions of g's overflow list.
CapablePositions(g) ==
    {i \in 1..Len(groups[g].overflowGroupIds) :
        /\ groups[g].overflowGroupIds[i] \in DOMAIN groups
        /\ \E a \in DOMAIN agents :
              /\ groups[g].overflowGroupIds[i] \in agents[a].groupIds
              /\ agents[a].status = AVAILABLE}

NoAvailableAgentIn(g) ==
    \A a \in DOMAIN agents :
        g \in agents[a].groupIds => agents[a].status # AVAILABLE

\* C9: a call to the number of a group g that has no AVAILABLE agent and has
\* overflow enabled is assigned to an AVAILABLE agent of the first group of
\* g's overflow list that exists and has an AVAILABLE agent, and takes that
\* group's id as groupId; groups earlier in the list are skipped.
C9_OverflowOrdering ==
    [][\A n \in DialledNumbers :
         LET g == GetGroupByPhoneNumber(groups, n)
         IN (/\ g # None
             /\ NoAvailableAgentIn(g)
             /\ groups[g].overflowEnabled
             /\ CapablePositions(g) # {}
             /\ IncomingCallWebhook(n, FALSE, FALSE))
            => LET first == groups[g].overflowGroupIds[Min(CapablePositions(g))]
                   call == calls'[Len(calls')]
               IN /\ Len(calls') = Len(calls) + 1
                  /\ call.groupId = first
                  /\ call.status = RINGING
                  /\ call.assignedAgentId \in DOMAIN agents
                  /\ first \in agents[call.assignedAgentId].groupIds
                  /\ agents[call.assignedAgentId].status = AVAILABLE
                  /\ agents'[call.assignedAgentId].status = IN_CALL
                  /\ agents'[call.assignedAgentId].currentCallId = Len(calls')
      ]_vars

\* C9 witness: group 1 overflows to <<2, 3>>; the call dialled to group 1 is
\* RINGING in group 3 at an agent that is in neither group 1 nor group 2.
C9_Witness ==
    /\ groups[1].overflowEnabled
    /\ groups[1].overflowGroupIds = <<2, 3>>
    /\ GetAgentsByGroup(agents, 2) # {}
    /\ Len(calls) = 1
    /\ calls[1].groupId = 3
    /\ calls[1].status = RINGING
    /\ calls[1].assignedAgentId # None
    /\ agents[calls[1].assignedAgentId].groupIds = {3}

\* C10: a call to the number of a group g that has no AVAILABLE agent and has
\* overflow disabled stays unassigned (INCOMING, no agent, groupId g) and no
\* agent of any group is reserved, whatever g's overflow list holds.
C10_OverflowDisabled ==
    [][\A n \in DialledNumbers :
         LET g == GetGroupByPhoneNumber(groups, n)
         IN (/\ g # None
             /\ NoAvailableAgentIn(g)
             /\ ~groups[g].overflowEnabled
             /\ IncomingCallWebhook(n, FALSE, FALSE))
            => LET call == calls'[Len(calls')]
               IN /\ Len(calls') = Len(calls) + 1
                  /\ call.status = INCOMING
                  /\ call.assignedAgentId = None
                  /\ call.groupId = g
                  /\ agents' = agents
      ]_vars

\* C10 witness: the call dialled to group 1 waits unassigned in group 1 while
\* overflow is off and a group of the overflow list has an AVAILABLE agent.
C10_Witness ==
    /\ ~groups[1].overflowEnabled
    /\ CapablePositions(1) # {}
    /\ NoAvailableAgentIn(1)
    /\ Len(calls) = 1
    /\ calls[1].status = INCOMING
    /\ calls[1].assignedAgentId = None
    /\ calls[1].groupId = 1

\* C11: an incoming call for a number that is no group's number has no
\* effect: no call is created, no agent is reserved, nothing is notified, and
\* the webhook answers with a failure.
C11_UnknownNumberHasNoEffect ==
    [][\A n \in DialledNumbers :
         (/\ \A g \in DOMAIN groups : groups[g].phoneNumber # n
          /\ IncomingCallWebhook(n, FALSE, FALSE))
         => /\ calls' = calls
            /\ agents' = agents
            /\ groups' = groups
            /\ last'.op = "handleIncomingCall"
            /\ ~last'.ok
            /\ last'.notified = {}
      ]_vars

\* C11 witness: the webhook has just refused a call while an agent of group
\* 1 was AVAILABLE, and that agent is still AVAILABLE.
C11_Witness ==
    /\ last = Rejected("handleIncomingCall")
    /\ calls = <<>>
    /\ \E a \in DOMAIN agents : 1 \in agents[a].groupIds /\ agents[a].status = AVAILABLE

\* C12: a call that arrives when neither its group nor any overflow
\* candidate has an AVAILABLE agent is stored INCOMING without an agent, and
\* a call stored INCOMING without an agent gets no agent in any later step.
C12_UnassignedCallStaysUnassigned ==
    [][/\ \A n \in DialledNumbers :
            LET g == GetGroupByPhoneNumber(groups, n)
            IN (/\ g # None
                /\ NoAvailableAgentIn(g)
                /\ groups[g].overflowEnabled => CapablePositions(g) = {}
                /\ IncomingCallWebhook(n, FALSE, FALSE))
               => LET call == calls'[Len(calls')]
                  IN /\ Len(calls') = Len(calls) + 1
                     /\ call.status = INCOMING
                     /\ call.assignedAgentId = None
                     /\ agents' = agents
       /\ \A c \in 1..Len(calls) :
            (calls[c].status = INCOMING /\ calls[c].assignedAgentId = None)
            => /\ calls'[c].status = INCOMING
               /\ calls'[c].assignedAgentId = None
               /\ \A a \in DOMAIN agents : agents'[a].currentCallId # c
      ]_vars

\* C12 witness: call 1 still waits unassigned although an agent of its group
\* has become AVAILABLE and a later call has been given to an agent.
C12_Witness ==
    /\ Len(calls) = 2
    /\ calls[1].status = INCOMING
    /\ calls[1].assignedAgentId = None
    /\ calls[2].status = RINGING
    /\ calls[2].groupId = calls[1].groupId
    /\ \E a \in DOMAIN agents :
          calls[1].groupId \in agents[a].groupIds /\ agents[a].status = AVAILABLE

\* C13: answerCall(callId, agentId) on a call that does not exist, is not
\* assigned to agentId or is not RINGING returns failure, does not call the
\* gateway and changes no call, agent or group; only a request on an existing
\* RINGING call by its assigned agent reaches the gateway.
C13_AnswerCallPrecondition ==
    [][\A c \in 1..MaxCalls, a \in AgentIds :
         LET valid == /\ c <= Len(calls)
                      /\ calls[c].assignedAgentId = a
                      /\ calls[c].status = RINGING
         IN AnswerCallRequest(c, a)
            => IF valid
               THEN pending' # pending \/ last'.gateway
               ELSE /\ calls' = calls
                    /\ agents' = agents
                    /\ groups' = groups
                    /\ pending' = pending
                    /\ last' = Rejected("answerCall")
      ]_vars

\* C13 witness: an answer request has just been refused (it did not come
\* from the assigned agent) while call 1 is RINGING at agent 1, untouched.
C13_Witness ==
    /\ last = Rejected("answerCall")
    /\ Len(calls) = 1
    /\ calls[1].status = RINGING
    /\ calls[1].assignedAgentId = 1
    /\ agents[1].status = IN_CALL
    /\ pending = {}

\* C14: when the gateway fails an answer (its request throws, or the call
\* carries no incoming-call context to answer with), answerCall returns
\* failure, changes no call and no agent (the call stays RINGING, its agent
\* reserved) and sends nothing; a call becomes CONNECTED only in a step in
\* which answerCall returns success after the gateway's success.
C14_AnswerGatewayFailure ==
    [][LET failed == /\ calls' = calls
                     /\ agents' = agents
                     /\ groups' = groups
                     /\ last' = Returned("answerCall", FALSE, TRUE, {})
       IN /\ \A p \in pending : AnswerCallFails(p) => failed
          /\ \A c \in 1..MaxCalls, a \in AgentIds :
                (/\ c <= Len(calls)
                 /\ calls[c].assignedAgentId = a
                 /\ calls[c].status = RINGING
                 /\ ~calls[c].acsIncomingCallContext
                 /\ AnswerCallRequest(c, a)) => failed
          /\ \A c \in 1..Len(calls) :
                (calls[c].status # CONNECTED /\ calls'[c].status = CONNECTED)
                => /\ last'.op = "answerCall"
                   /\ last'.ok
                   /\ last'.gateway
                   /\ "call_answered" \in last'.notified
      ]_vars

\* C14 witness: the gateway has just failed the answer of call 1, which is
\* still RINGING at agent 1, reserved for it.
C14_Witness ==
    /\ last = Returned("answerCall", FALSE, TRUE, {})
    /\ Len(calls) = 1
    /\ calls[1].status = RINGING
    /\ calls[1].acsIncomingCallContext
    /\ calls[1].assignedAgentId = 1
    /\ agents[1].status = IN_CALL
    /\ agents[1].currentCallId = 1
    /\ pending = {}

\* C15: endCall(callId, agentId) with an agentId that is not the call's
\* assigned agent returns failure, does not call the gateway and changes no
\* call (status included), no agent (status, currentCallId, statistics) and
\* no group.
C15_EndCallByOtherAgentRejected ==
    [][\A c \in 1..MaxCalls, a \in AgentIds :
         (/\ c <= Len(calls)
          /\ calls[c].assignedAgentId # a
          /\ EndCallRequest(c, a))
         => /\ calls' = calls
            /\ agents' = agents
            /\ groups' = groups
            /\ pending' = pending
            /\ last' = Rejected("endCall")
      ]_vars

\* C15 witness: an end request has just been refused while call 1 is
\* CONNECTED at agent 1, which is still IN_CALL for it with no call counted.
C15_Witness ==
    /\ last = Rejected("endCall")
    /\ Len(calls) = 1
    /\ calls[1].status = CONNECTED
    /\ calls[1].assignedAgentId = 1
    /\ agents[1].status = IN_CALL
    /\ agents[1].currentCallId = 1
    /\ agents[1].statistics.totalCalls = 0
    /\ pending = {}

\* C16: when the gateway's hangUp fails, endCall returns failure and changes
\* nothing: the call keeps its status and gets no endTime or duration, its
\* agent is not released, no statistics change, and nothing is sent.
C16_EndGatewayFailure ==
    [][\A p \in pending :
         HangUpReturns(p, FALSE)
         => /\ calls' = calls
            /\ agents' = agents
            /\ groups' = groups
            /\ last' = Returned("endCall", FALSE, TRUE, {})
      ]_vars

\* C16 witness: the hangUp of call 1 has just failed; the call is still
\* CONNECTED with no endTime or duration and agent 1 is still IN_CALL for it.
C16_Witness ==
    /\ last = Returned("endCall", FALSE, TRUE, {})
    /\ Len(calls) = 1
    /\ calls[1].status = CONNECTED
    /\ calls[1].endTime = Undef
    /\ calls[1].duration = Undef
    /\ calls[1].assignedAgentId = 1
    /\ agents[1].status = IN_CALL
    /\ agents[1].currentCallId = 1
    /\ agents[1].statistics.totalCalls = 0
    /\ pending = {}

\* C17: a transferCall of a call from its assigned agent to another agent
\* that is AVAILABLE leaves the origin agent not IN_CALL with no
\* currentCallId, the target agent IN_CALL with currentCallId = the call, the
\* call assigned to the target with status TRANSFERRED, and the calls the same.
C17_TransferMovesTheCall ==
    [][\A c \in 1..MaxCalls, a \in AgentIds, b \in AgentIds :
         (/\ c <= Len(calls)
          /\ a # b
          /\ a \in DOMAIN agents
          /\ b \in DOMAIN agents
          /\ calls[c].assignedAgentId = a
          /\ agents[b].status = AVAILABLE
          /\ TransferCallRequest(c, a, b))
         => /\ agents'[a].status # IN_CALL
            /\ agents'[a].currentCallId = None
            /\ agents'[b].status = IN_CALL
            /\ agents'[b].currentCallId = c
            /\ calls'[c].assignedAgentId = b
            /\ calls'[c].status = TRANSFERRED
            /\ Len(calls') = Len(calls)
      ]_vars

\* C18: ENDED is terminal: a call whose status is ENDED has status ENDED
\* after every step.
C18_EndedIsTerminal ==
    [][\A c \in 1..Len(calls) :
         calls[c].status = ENDED => calls'[c].status = ENDED
      ]_vars

\* C19: for every agent that has not been added to a group since it was
\* created, and every group, addAgentToGroup followed by removeAgentFromGroup
\* leaves the group's agentIds and the agent's groupIds as they were.
C19_AddRemoveRoundTrip ==
    \A a \in DOMAIN agents, g \in DOMAIN groups :
        (\A h \in DOMAIN groups : a \notin groups[h].agentIds)
        => LET added == AddAgentToGroup(groups, agents, g, a)
               removed == RemoveAgentFromGroup(added.groups, added.agents, g, a)
           IN /\ removed.groups[g].agentIds = groups[g].agentIds
              /\ removed.agents[a].groupIds = agents[a].groupIds

\* C20: after DELETE /api/agents/:id has deleted an agent, no group lists the
\* id in its agentIds and no WebSocket connection of the agent is left.
C20_DeletedAgentIsEvicted ==
    [][\A id \in AgentIds :
         (id \in DOMAIN agents /\ DeleteAgentRequest(id))
         => /\ \A g \in DOMAIN groups : id \notin groups'[g].agentIds
            /\ clients'[id] = 0
      ]_vars

\* C21: in every reachable state no two groups have the same phoneNumber.
C21_PhoneNumberUnique ==
    \A g, h \in DOMAIN groups :
        groups[g].phoneNumber = groups[h].phoneNumber => g = h

\* C22: at the incoming-call webhook a subscription-validation event with a
\* validation code is answered 200 with a body echoing the code, one without
\* a code is answered 400, and neither routes a call (no call, agent, group,
\* gateway request or session changes).
C22_ValidationHandshake ==
    [][\A body \in IncomingBodies :
         (/\ body.format = "eventgrid"
          /\ body.eventType = "SubscriptionValidationEvent"
          /\ HandleIncomingCall(body))
         => /\ body.validationCode # ""
               => /\ last'.status = 200
                  /\ last'.body = [validationResponse |-> body.validationCode]
            /\ body.validationCode = "" => last'.status = 400
            /\ UNCHANGED <<agents, groups, calls, pending, sessions>>
      ]_vars

\* A validation code was echoed while a call exists.
C22_Witness ==
    /\ last.op = "handleIncomingCall"
    /\ last.status = 200
    /\ last.body = [validationResponse |-> "code-b"]
    /\ Len(calls) > 0

\* C23: on both webhook endpoints an envelope whose event type is not
\* recognized is answered with a 2xx status and changes no call, agent or
\* group.
C23_UnknownEventAcknowledged ==
    [][/\ \A body \in IncomingBodies :
            (/\ body.format = "eventgrid"
             /\ body.eventType = "Other"
             /\ HandleIncomingCall(body))
            => /\ last'.status \in 200..299
               /\ UNCHANGED <<agents, groups, calls, pending, sessions>>
       /\ \A event \in EventBodies :
            (event.eventType = "Other" /\ HandleACSCallEvents(event))
            => /\ last'.status \in 200..299
               /\ UNCHANGED <<agents, groups, calls, pending, sessions>>
      ]_vars

\* C24: an incoming-call event without data, destination or caller number,
\* and a legacy request without phoneNumber or callerNumber, is answered 400
\* and creates no call and reserves no agent.
C24_MissingFieldsRejected ==
    [][\A body \in IncomingBodies :
         (/\ \/ /\ body.format = "eventgrid"
                /\ body.eventType = "IncomingCall"
                /\ (~body.data \/ body.to = None \/ ~body.from)
             \/ /\ body.format = "legacy"
                /\ (body.phoneNumber = None \/ ~body.callerNumber)
          /\ HandleIncomingCall(body))
         => /\ last'.op = "handleIncomingCall"
            /\ last'.status = 400
            /\ UNCHANGED <<agents, groups, calls, pending, sessions>>
      ]_vars

\* A request was answered 400 while the agent was available and no call
\* had come in.
C24_Witness ==
    /\ last = BadRequest("handleIncomingCall")
    /\ agents[1].status = AVAILABLE
    /\ calls = <<>>

\* C25: a console makes at most 5 reconnect attempts between two successful
\* opens of its channel (attempts counts the reconnects made since the last
\* open).
C25_ReconnectBounded == console.attempts <= maxReconnectAttempts

\* C26: when an answerCall that awaited the gateway completes for a call that
\* was ended in the meantime, the call is still ENDED and no agent that was
\* not bound to it becomes bound to it.
C26_LateAnswerKeepsEnded ==
    [][\A p \in pending :
         (/\ p.kind \in {"answer", "handoff"}
          /\ calls[p.callId].status = ENDED
          /\ p \notin pending')
         => /\ calls'[p.callId].status = ENDED
            /\ \A a \in DOMAIN agents :
                 agents[a].currentCallId # p.callId
                 => agents'[a].currentCallId # p.callId
      ]_vars

\* C27: when an explicit endCall and the endCall of a disconnect event overlap
\* on a call, the assigned agent's totalCalls increases by 1 for that call:
\* no agent has counted more calls than were assigned to it.
C27_OverlappingEndsCountOnce ==
    \A a \in DOMAIN agents :
        agents[a].statistics.totalCalls
            <= Cardinality({c \in 1..Len(calls) : calls[c].assignedAgentId = a})

\* The calls an agent is reserved for or was given: the suspended invocations
\* that hold the agent and the calls assigned to it.
ReservedFor(a) ==
    {inv.callId : inv \in {i \in routing : i.agent = a}}
    \cup {c \in 1..Len(calls) : calls[c].assignedAgentId = a}

\* C28: however handleIncomingCall invocations interleave, no agent is
\* reserved for more than one of the calls, and the agent an invocation
\* reserved is in a call with exactly that call.
C28_NoDoubleReservation ==
    \A a \in DOMAIN agents :
        /\ Cardinality(ReservedFor(a)) <= 1
        /\ \A c \in ReservedFor(a) :
             agents[a].status = IN_CALL /\ agents[a].currentCallId = c

\* Two invocations are suspended at once, each holding an agent of its own,
\* and both agents are members of one group.
C28_Witness ==
    \E i, j \in routing :
        /\ i.callId # j.callId
        /\ i.agent # None /\ j.agent # None
        /\ agents[i.agent].groupIds \cap agents[j.agent].groupIds # {}

\* C29: when the agent's identity is known and the external answer succeeded
\* but the transfer-to-agent handoff failed, the gateway's answer returns
\* failure: answerCall fails and the call is not CONNECTED by it.
C29_HandoffFailureFailsAnswer ==
    [][\A p \in pending :
         AnswerCallHandoffReturns(p, FALSE)
         => /\ ~last'.ok
            /\ calls'[p.callId].status = calls[p.callId].status
      ]_vars

C31_TransferResultClearsOnlyOnSuccess ==
    [][\A conn \in ConnectionIds :
         LET callId == FindCallByACSConnectionId(conn)
         IN callId # None
            => /\ CallTransferResultEvent(conn, TRUE)
                  => calls'[callId].acsCallConnectionId = None
               /\ CallTransferResultEvent(conn, FALSE)
                  => calls'[callId].acsCallConnectionId = conn
      ]_vars

\* C32: with a live gateway, endCall (by nobody or by the assigned agent) on a
\* call that is not ENDED and has no connection id does not wait for the
\* control plane: in that one step the call becomes ENDED and its assigned
\* agent, if any, is released (AVAILABLE, no currentCallId).
C32_EndWithoutConnectionId ==
    [][\A c \in 1..MaxCalls, a \in AgentIds \cup {None} :
         (/\ c <= Len(calls)
          /\ acsMode = "live"
          /\ calls[c].acsCallConnectionId = None
          /\ calls[c].status # ENDED
          /\ EndCallAuthorized(calls[c], a)
          /\ EndCallRequest(c, a))
         => /\ pending' = pending
            /\ last'.ok
            /\ calls'[c].status = ENDED
            /\ LET x == calls[c].assignedAgentId
               IN x # None => /\ agents'[x].status = AVAILABLE
                              /\ agents'[x].currentCallId = None
      ]_vars

\* C33: when the control plane answers the hangUp with "connection not
\* found", endCall succeeds as it does after a hangUp that returned: the call
\* becomes ENDED; after any other error endCall returns failure and changes
\* no call, agent or group.
C33_HangUpNotFoundIsSuccess ==
    [][\A p \in pending, o \in HangUpOutcomes :
         HangUp(p, o)
         => IF o = "error"
            THEN /\ last' = Returned("endCall", FALSE, TRUE, {})
                 /\ calls' = calls
                 /\ agents' = agents
                 /\ groups' = groups
            ELSE /\ last' = EndedCall(calls[p.callId])
                 /\ calls'[p.callId].status = ENDED
                 /\ calls'[p.callId].endTime = now
      ]_vars

\* C33 witness: endCall has just succeeded on call 1, whose connection the
\* control plane had already reported disconnected when the hangUp was
\* answered (the session it names is gone).
C33_Witness ==
    /\ last.op = "endCall" /\ last.ok /\ last.gateway
    /\ Len(calls) = 1
    /\ calls[1].status = ENDED
    /\ calls[1].acsCallConnectionId = RealConnectionId(1)
    /\ sessions[RealConnectionId(1)] = "down"
    /\ pending = {}

\* C34: a call is CONNECTED only with an assigned agent, and it becomes
\* CONNECTED only from RINGING; this also holds when a CallConnected event
\* names the connection of a call that is still INCOMING and unassigned.
C34_ConnectedHasAgent ==
    [][\A c \in 1..Len(calls) :
         (calls[c].status # CONNECTED /\ calls'[c].status = CONNECTED)
         => /\ calls[c].status = RINGING
            /\ calls'[c].assignedAgentId # None
      ]_vars

\* C35: membership is symmetric in every reachable state: for every agent a
\* and group g that exist, a is listed in g.agentIds exactly when g is listed
\* in a.groupIds, so the agents routing looks at in a group
\* (getAgentsByGroup) are the group's listed members.
C35_MembershipSymmetric ==
    \A g \in DOMAIN groups :
        GetAgentsByGroup(agents, g) = groups[g].agentIds \cap DOMAIN agents

\* C36: the statistics of every group agree with the agent directory: the
\* group's totalAgents, availableAgents and busyAgents are the numbers of its
\* member agents, of those AVAILABLE, and of those BUSY or IN_CALL, after
\* every operation that changes memberships or agents' statuses.
C36_GroupStatisticsConsistent ==
    \A g \in DOMAIN groups :
        LET members == GetAgentsByGroup(agents, g)
        IN /\ groups[g].statistics.totalAgents = Cardinality(members)
           /\ groups[g].statistics.availableAgents =
                 Cardinality({a \in members : agents[a].status = AVAILABLE})
           /\ groups[g].statistics.busyAgents =
                 Cardinality({a \in members : agents[a].status \in {BUSY, IN_CALL}})

\* C37: the statistics of an agent change only in a step that completes a
\* call assigned to that agent (the call becomes ENDED), and that step adds
\* exactly 1 to totalCalls and the call's duration to totalCallDuration; no
\* other operation changes them, and they never decrease.
C37_StatisticsOnlyAtCompletion ==
    [][\A a \in DOMAIN agents \cap DOMAIN agents' :
         LET st == agents[a].statistics
             new == agents'[a].statistics
         IN new # st
            => /\ new.totalCalls >= st.totalCalls
               /\ new.totalCallDuration >= st.totalCallDuration
               /\ \E c \in 1..Len(calls) :
                     /\ calls[c].assignedAgentId = a
                     /\ calls[c].status # ENDED
                     /\ calls'[c].status = ENDED
                     /\ new.totalCalls = st.totalCalls + 1
                     /\ new.totalCallDuration =
                           st.totalCallDuration + calls'[c].duration
      ]_vars

\* The day, week and month of the call an agent's counters last counted.
Week(t) == Day(t) \div DaysPerWeek

SameWindow(st, window(_)) ==
    st.lastCallTime # Undef /\ window(st.lastCallTime) = window(now)

\* C38: when an agent is released (totalCalls grows by 1), each of
\* callsToday, callsThisWeek and callsThisMonth becomes 1 if the completed
\* call falls in a later day, week or month than the call the counter last
\* counted, and grows by 1 otherwise.
C38_BucketCountersReset ==
    [][\A a \in DOMAIN agents \cap DOMAIN agents' :
         LET st == agents[a].statistics
             new == agents'[a].statistics
         IN new.totalCalls = st.totalCalls + 1
            => /\ new.callsToday =
                     IF SameWindow(st, Day) THEN st.callsToday + 1 ELSE 1
               /\ new.callsThisWeek =
                     IF SameWindow(st, Week) THEN st.callsThisWeek + 1 ELSE 1
               /\ new.callsThisMonth =
                     IF SameWindow(st, Month) THEN st.callsThisMonth + 1 ELSE 1
      ]_vars

\* C39: every call that is RINGING or CONNECTED and has an assigned agent is
\* assigned to an agent of the directory; deleting an agent leaves no live
\* call assigned to it.
C39_LiveCallAgentExists ==
    \A c \in 1..Len(calls) :
        (calls[c].status \in {RINGING, CONNECTED} /\ calls[c].assignedAgentId # None)
        => calls[c].assignedAgentId \in DOMAIN agents

\* C40: a console that is disconnected (it has no socket: disconnect() was
\* called, or connect() never was) gets a new socket only by a call of
\* connect(); neither the close event of the socket that disconnect() closed
\* nor a reconnect timer opens one.  (With a URL that new WebSocket rejects
\* the console never has a socket.)
C40_NoReconnectAfterDisconnect ==
    [][(/\ ~console.throws
        /\ console.ws = "none"
        /\ console'.ws # "none") => ConsoleConnect
      ]_vars

====
